---- MODULE Spec2Model ----
(***************************************************************************)
(* Dual-tenant PZEM-004T monitor: the handler (pzem_handler.py) and the    *)
(* monitoring loop with its recovery logic (main.py).                      *)
(*                                                                         *)
(* Spec runs the monitor against meters that answer by frame kind.         *)
(* BenchSpec applies the pure functions (crc16_modbus, build_read_command, *)
(* read_response, _validate_data, the adaptive sleep) to chosen inputs,    *)
(* one input per behaviour.                                                *)
(*                                                                         *)
(* Units.  The program computes with floats; the model keeps the raw       *)
(* integers the floats are derived from, so every comparison is exact:     *)
(*   voltage       0.1 V    (register 0)                                   *)
(*   current       0.001 A  (registers 1,2)                                *)
(*   power         0.1 W    (registers 3,4)                                *)
(*   frequency     0.1 Hz   (register 7)                                   *)
(*   power_factor  0.01     (register 8)                                   *)
(*   energy totals 0.1 W*s  (power * seconds); 36 000 000 units = 1 kWh    *)
(* Float rounding is not modelled.                                         *)
(***************************************************************************)
EXTENDS Integers, Sequences, FiniteSets, TLC

VARIABLES
    now,                \* utime.time(): wall clock, whole seconds
    meter,              \* what each meter can answer to a request in this run
    pc,                 \* position of the single thread of control
    running,            \* self.running
    pzem,               \* self.pzem: "None" or "Handler"
    handler,            \* the fields of the PZEMHandler self.pzem refers to
    attempt,            \* _initialize_pzem: loop index
    retry_delay,        \* _initialize_pzem: local retry_delay
    init_from,          \* who called _initialize_pzem: "ctor" or "restart"
    last_reading,       \* self.last_reading
    last_stats_print,   \* self.last_stats_print
    last_gc_run,        \* self.last_gc_run
    read_count,         \* self.read_count
    stats,              \* self.stats
    last_valid_data,    \* self.last_valid_data
    consecutive_errors, \* self.consecutive_errors
    last_daily_reset,   \* self.last_daily_reset
    timing_stats,       \* self.timing_stats
    current_time,       \* run(): local current_time
    cycle_ms,           \* run(): ticks_ms elapsed since cycle_start
    cycle_time,         \* run(): local cycle_time (Unbound until first assigned)
    data,               \* run(): data_a / data_b, the last values returned by the polls
    status,             \* run(): status_a / status_b, the messages returned with them
    sleeps,             \* history: utime.sleep() calls of the current _initialize_pzem
    restarts,           \* history: number of _restart_pzem_handler calls
    poll_count,         \* history: requests sent to each meter
    outcome,            \* history: what the last monitored poll of each meter really was
    streak,             \* history: monitored polls of a meter since its last real Success
    last_sample,        \* history: time of the last decoded sample of each meter, -1 if none
    before,             \* history: handler and counters just before the last restart
    reset_log,          \* history: times at which reset_daily_counters ran
    step,               \* history: the action taken last
    gap,                \* history: how far the last decoded monitored sample of each
                        \* meter was from the meter's sample before it
    probes,             \* history: connectivity tests run (each reads both meters)
    alerts,             \* history: calls of GSMHandler.send_system_alert
    broke_off,          \* history: what a KeyboardInterrupt broke off
    bench_response,           \* bench: the bytes handed to read_response
    bench_address,            \* bench: the address read_response expects
    bench_parsed,             \* bench: what read_response made of them
    bench_sample,             \* bench: the reading handed to _validate_data
    bench_verdict,            \* bench: what _validate_data returned
    bench_data,               \* bench: the bytes handed to crc16_modbus
    bench_crc,                \* bench: what crc16_modbus returned
    bench_command,            \* bench: what build_read_command returned
    bench_cycle_time,         \* bench: the cycle_time the adaptive sleep is computed from
    bench_sleep_time,         \* bench: the sleep_time passed to utime.sleep_ms
    exchange_pc,        \* one exchange: position in send_command / read_response
    line,               \* one exchange: how the meter's line behaves
    owed,               \* one exchange: bytes of the answer the meter has yet to send
    uart_rx,            \* one exchange: bytes waiting in the UART (uart.any())
    response_len,       \* one exchange: len(response) in read_response
    waited_ms           \* one exchange: ms slept in the loop of read_response

vars == <<now, meter, pc, running, pzem, handler, attempt, retry_delay, init_from,
          last_reading, last_stats_print, last_gc_run, read_count, stats,
          last_valid_data, consecutive_errors, last_daily_reset, timing_stats,
          current_time, cycle_ms, cycle_time, data, status, sleeps, restarts, poll_count,
          outcome, streak, last_sample, before, reset_log, step, gap, probes,
          alerts, broke_off,
          bench_response, bench_address, bench_parsed, bench_sample, bench_verdict,
          bench_data, bench_crc, bench_command, bench_cycle_time, bench_sleep_time,
          exchange_pc, line, owed, uart_rx, response_len, waited_ms>>

\* The variables of the codec and validator bench.
bench_vars == <<bench_response, bench_address, bench_parsed, bench_sample, bench_verdict,
                bench_data, bench_crc, bench_command, bench_cycle_time,
                bench_sleep_time>>

\* The variables of a single request/response exchange.
exchange_vars == <<exchange_pc, line, owed, uart_rx, response_len, waited_ms>>

-----------------------------------------------------------------------------
(* Bounds of the model *)

MaxCycles == 12         \* polling cycles (read_count) explored
MaxLen == 3             \* longest byte string drawn freely for crc16_modbus
MaxRx == 30             \* most bytes held waiting in the UART

-----------------------------------------------------------------------------
(* Program constants *)

SENSOR_READ_INTERVAL == 1
max_consecutive_errors == 10
max_retries == 3
initial_retry_delay == 2
WindowSize == 10                \* timing lists keep the last 10 entries
InterReadDelayMs == 200         \* utime.sleep_ms(200) between the two polls
SendWaitMs == 100               \* send_command: utime.sleep_ms(100)
timeout_ms == 500               \* read_response: default timeout
StatsPeriod == 30
GcPeriod == 60
ResetWindowMinutes == 5
ResetGuardSeconds == 21600      \* 6 * 3600
SleepFloorMs == 50
SleepPeriodMs == 200
SecondsPerDay == 86400
Unbound == -1                   \* a local that has not been assigned yet

Tenants == {"a", "b"}
None == [is_none |-> TRUE]

Abs(x) == IF x < 0 THEN -x ELSE x
Max(x, y) == IF x > y THEN x ELSE y

-----------------------------------------------------------------------------
(* The environment: clock and meters *)

\* utime.localtime(t)[3], [4], [5]
Hour(t) == (t \div 3600) % 24
Minute(t) == (t \div 60) % 60
Second(t) == t % 60

\* Values of utime.time() at power-up: a clock counting from its reference
\* point, and a set clock two seconds before midnight.
StartTimes == {0, SecondsPerDay - 2}

\* Whole seconds the clock shows passing across one end-of-loop sleep (50 to
\* 200 ms) and between the two polls of a connectivity test.  A poll of the
\* monitoring loop is taken to end in the second the iteration began;
\* utime.sleep(n) advances the clock by n.
Delays == {0, 1}

\* What read_response decodes from a well-formed 25-byte frame, by frame.
FrameReading(kind) ==
    CASE kind = "normal" ->      \* 200.0 V, 5.000 A, 1000.0 W, 50.0 Hz, PF 1.00
           [voltage |-> 2000, current |-> 5000, power |-> 10000, energy |-> 0,
            frequency |-> 500, power_factor |-> 100]
      [] kind = "idle" ->        \* 230.0 V, no load
           [voltage |-> 2300, current |-> 0, power |-> 0, energy |-> 0,
            frequency |-> 500, power_factor |-> 0]
      [] kind = "overrange" ->   \* 260.0 V, 100.000 A, 26000.0 W
           [voltage |-> 2600, current |-> 100000, power |-> 260000, energy |-> 0,
            frequency |-> 500, power_factor |-> 100]
      [] kind = "overvoltage" -> \* 300.0 V, 5.000 A, 1500.0 W
           [voltage |-> 3000, current |-> 5000, power |-> 15000, energy |-> 0,
            frequency |-> 500, power_factor |-> 100]

FrameKinds == {"normal", "idle", "overrange", "overvoltage"}
\* Answers read_response rejects: nothing, fewer than 25 bytes, 25 bytes that
\* fail the address/function/length/CRC checks.
FaultKinds == {"silent", "incomplete", "corrupt"}

\* The pairs of meters explored: what meter A and meter B can answer to a
\* request, each answer chosen anew at every poll.
Profiles ==
    { [a |-> {"normal", "corrupt"}, b |-> {"overrange"}],
      [a |-> {"silent", "incomplete"}, b |-> {"normal"}],
      [a |-> {"idle", "overvoltage"}, b |-> {"overvoltage"}],
      [a |-> {"normal"}, b |-> {"normal", "corrupt"}] }

-----------------------------------------------------------------------------
(* pzem_handler.py *)

\* PZEMHandler.__init__: both UARTs open, accumulators and timestamps zero.
PZEMHandler ==
    [energy |-> [t \in Tenants |-> 0],
     daily_energy |-> [t \in Tenants |-> 0],
     last_reading |-> [t \in Tenants |-> 0],
     open |-> TRUE]

\* The fields shown while self.pzem is None: there is no handler object.
NoHandler == [PZEMHandler EXCEPT !.open = FALSE]

\* PZEMHandler.close
close(h) == [h EXCEPT !.open = FALSE]

\* read_response: the decoded dict for a frame that passes every check, None
\* for everything else.
read_response(resp, time) ==
    IF resp \in FrameKinds
    THEN LET f == FrameReading(resp) IN
         [voltage |-> f.voltage, current |-> f.current, power |-> f.power,
          energy |-> f.energy, frequency |-> f.frequency,
          power_factor |-> f.power_factor, timestamp |-> time]
    ELSE None

\* A failure reading that reports zero totals.
ZeroReadingWithoutTotals(h, t, time) ==
    [voltage |-> 0, current |-> 0, power |-> 0, energy |-> 0,
     frequency |-> 0, power_factor |-> 0, timestamp |-> time,
     daily_energy |-> 0]

\* The dict read_tenant_a / read_tenant_b return when read_response gave None.
ZeroReading(h, t, time) ==
    [voltage |-> 0, current |-> 0, power |-> 0, energy |-> h.energy[t],
     frequency |-> 0, power_factor |-> 0, timestamp |-> time,
     daily_energy |-> h.daily_energy[t]]

\* An increment without the cap on the time difference.
energy_increment_uncapped(h, t, power, time) ==
    LET time_diff == time - h.last_reading[t] IN
    IF h.last_reading[t] > 0 /\ 0 < time_diff
    THEN power * time_diff
    ELSE 0

\* energy_increment of read_tenant_a / read_tenant_b, in 0.1 W*s.
energy_increment(h, t, power, time) ==
    LET time_diff == time - h.last_reading[t] IN
    IF h.last_reading[t] > 0 /\ 0 < time_diff /\ time_diff <= 10
    THEN power * time_diff
    ELSE 0

\* read_tenant_a / read_tenant_b (the two differ only in the tenant's fields):
\* the handler afterwards and the dict returned.  daily_cost, a fixed multiple
\* of daily_energy, is not carried.
read_tenant(h, t, resp, time) ==
    LET d == read_response(resp, time) IN
    IF d # None
    THEN LET inc == energy_increment(h, t, d.power, time)
             h2 == [h EXCEPT !.energy[t] = @ + inc,
                             !.daily_energy[t] = @ + inc,
                             !.last_reading[t] = time]
         IN [h |-> h2,
             data |-> [voltage |-> d.voltage, current |-> d.current,
                       power |-> d.power, energy |-> h2.energy[t],
                       frequency |-> d.frequency, power_factor |-> d.power_factor,
                       timestamp |-> d.timestamp,
                       daily_energy |-> h2.daily_energy[t]]]
    ELSE [h |-> h, data |-> ZeroReading(h, t, time)]

\* A reset that clears the lifetime totals as well.
reset_all_counters(h) ==
    [h EXCEPT !.daily_energy = [t \in Tenants |-> 0],
              !.energy = [t \in Tenants |-> 0]]

\* reset_daily_counters
\* A reset that clears the lifetime totals and keeps the daily ones.
reset_lifetime_counters(h) == [h EXCEPT !.energy = [t \in Tenants |-> 0]]

reset_daily_counters(h) == [h EXCEPT !.daily_energy = [t \in Tenants |-> 0]]

\* ticks_ms spent in send_command + read_response: the 100 ms wait after the
\* write, then either the buffered 25 bytes at once or the whole timeout.
ReadTimeMs(resp) ==
    IF resp \in {"silent", "incomplete"} THEN SendWaitMs + timeout_ms ELSE SendWaitMs

-----------------------------------------------------------------------------
(* pzem_handler.py: the wire format.  Bytes are 0..255; a response is the  *)
(* sequence of bytes collected from the UART, first byte at index 1.       *)

\* a ^ b on the low n bits
RECURSIVE XorBits(_, _, _)
XorBits(a, b, n) ==
    IF n = 0 THEN 0
    ELSE (((a % 2) + (b % 2)) % 2) + 2 * XorBits(a \div 2, b \div 2, n - 1)

\* crc ^= 0xA001 for a crc below 0x8000 (it has just been shifted right):
\* bit 15 is set, bits 13 and 0 are flipped.
XorA001(crc) ==
    crc + 32768
        + (IF (crc \div 8192) % 2 = 1 THEN -8192 ELSE 8192)
        + (IF crc % 2 = 1 THEN -1 ELSE 1)

\* crc16_modbus: the inner loop, n shifts
RECURSIVE crc_shift(_, _)
crc_shift(crc, n) ==
    IF n = 0 THEN crc
    ELSE crc_shift(IF crc % 2 = 1 THEN XorA001(crc \div 2) ELSE crc \div 2, n - 1)

\* crc16_modbus: the outer loop from byte i on
RECURSIVE crc_from(_, _, _)
crc_from(bytes, i, crc) ==
    IF i > Len(bytes) \/ crc < 0 THEN crc
    ELSE crc_from(bytes, i + 1,
                  crc_shift((crc \div 256) * 256 + XorBits(crc % 256, bytes[i], 8), 8))

\* A CRC-16 whose result is inverted at the end.
crc16_inverted(bytes) == 65535 - crc_from(bytes, 1, 65535)

\* crc16_modbus
crc16_modbus(bytes) == crc_from(bytes, 1, 65535)

\* A request with the CRC appended high byte first.
build_read_command_high_first(address) ==
    LET command == <<address, 4, 0, 0, 0, 10>>
        crc == crc16_modbus(command)
    IN command \o <<(crc \div 256) % 256, crc % 256>>

\* build_read_command: address, 0x04, start register 0x0000, 10 registers,
\* CRC low byte, CRC high byte
build_read_command(address) ==
    LET command == <<address, 4, 0, 0, 0, 10>>
        crc == crc16_modbus(command)
    IN command \o <<crc % 256, (crc \div 256) % 256>>

\* A check that accepts any checksum.
crc_unchecked(response) == TRUE

\* read_response: calculated_crc == received_crc, the CRC of everything but
\* the last two bytes against the last two bytes, low byte first.
crc_matches(response) ==
    LET n == Len(response) IN
    crc16_modbus(SubSeq(response, 1, n - 2)) = response[n - 1] + 256 * response[n]

\* The checks with the function code looked at before the address and 0x84
\* treated like any other wrong function code.
frame_fault_function_first(response, address) ==
    IF Len(response) < 25 THEN "Incomplete response"
    ELSE IF response[2] # 4 THEN "Wrong function code"
    ELSE IF response[1] # address THEN "Wrong address in response"
    ELSE IF response[3] # 20 THEN "Wrong byte count"
    ELSE IF ~crc_matches(response) THEN "CRC error"
    ELSE "none"

\* read_response: the first check the response fails, named by the message
\* printed for it, "none" when it passes them all.
frame_fault(response, address) ==
    IF Len(response) < 25 THEN "Incomplete response"
    ELSE IF response[1] # address THEN "Wrong address in response"
    ELSE IF response[2] # 4
        THEN (IF response[2] = 132 THEN "Modbus error" ELSE "Wrong function code")
    ELSE IF response[3] # 20 THEN "Wrong byte count"
    ELSE IF ~crc_matches(response) THEN "CRC error"
    ELSE "none"

\* A register read low byte first.
register_little_endian(response, i) == response[4 + 2 * i] + 256 * response[5 + 2 * i]

\* struct.unpack('>H', data_bytes[2i:2i+2]) with data_bytes = response[3:23]
register(response, i) == 256 * response[4 + 2 * i] + response[5 + 2 * i]

\* A power factor taken as sent.
power_factor_unclamped(power_factor_raw, current, power) == power_factor_raw

\* read_response: the power factor reported, in 0.01
power_factor(power_factor_raw, current, power) ==
    IF current = 0 \/ power = 0 THEN 0
    ELSE IF power_factor_raw < 0 THEN 0
    ELSE IF power_factor_raw > 100 THEN 100
    ELSE power_factor_raw

\* read_response: the dict built from the registers of a checked response.
\* (hi << 16) | lo is hi * 65536 + lo for 16-bit registers.
decode(response, time) ==
    LET current == register(response, 2) * 65536 + register(response, 1)
        power == register(response, 4) * 65536 + register(response, 3)
    IN [voltage |-> register(response, 0),
        current |-> current,
        power |-> power,
        energy |-> register(response, 6) * 65536 + register(response, 5),
        frequency |-> register(response, 7),
        power_factor |-> power_factor(register(response, 8), current, power),
        timestamp |-> time]

\* read_response from the collected bytes on: what it returns, the message
\* it prints (nothing is printed for an empty response) and the error code
\* shown in a "Modbus error" message.
read_response_bytes(response, address, time) ==
    LET fault == frame_fault(response, address) IN
    [reading |-> IF fault = "none" THEN decode(response, time) ELSE None,
     message |-> IF response = <<>> THEN "none" ELSE fault,
     returned_at |-> fault,
     error_code |-> IF fault = "Modbus error" THEN response[3] ELSE 0]

\* What a meter puts on the wire: address, function code, byte count, ten
\* registers high byte first, CRC low byte first.
RECURSIVE RegisterBytes(_)
RegisterBytes(regs) ==
    IF regs = <<>> THEN <<>>
    ELSE <<Head(regs) \div 256, Head(regs) % 256>> \o RegisterBytes(Tail(regs))

Frame(addr, function, count, regs) ==
    LET body == <<addr, function, count>> \o RegisterBytes(regs)
        crc == crc16_modbus(body)
    IN body \o <<crc % 256, crc \div 256>>

\* The registers behind each frame kind of FrameReading.
FrameRegisters(kind) ==
    LET f == FrameReading(kind) IN
    <<f.voltage, f.current % 65536, f.current \div 65536,
      f.power % 65536, f.power \div 65536, 0, 0, f.frequency, f.power_factor, 0>>

-----------------------------------------------------------------------------
(* main.py: pure helpers *)

\* A validator that looks at the current before the voltage.
_validate_data_current_first(d) ==
    IF d = None THEN [ok |-> FALSE, reason |-> "NoData"]
    ELSE IF d.current < 0 \/ d.current > 100000
        THEN [ok |-> FALSE, reason |-> "CurrentRange"]
    ELSE IF d.voltage > 0 /\ (d.voltage < 1800 \/ d.voltage > 2800)
        THEN [ok |-> FALSE, reason |-> "VoltageRange"]
    ELSE IF d.power < 0 \/ d.power > 250000
        THEN [ok |-> FALSE, reason |-> "PowerRange"]
    ELSE IF d.frequency > 0 /\ (d.frequency < 450 \/ d.frequency > 650)
        THEN [ok |-> FALSE, reason |-> "FrequencyRange"]
    ELSE IF d.power_factor < 0 \/ d.power_factor > 100
        THEN [ok |-> FALSE, reason |-> "PowerFactorRange"]
    ELSE IF d.voltage > 100 /\ d.current > 10
            /\ LET calculated_power == d.voltage * d.current * d.power_factor
               IN Abs(d.power * 100000 - calculated_power) > calculated_power \div 10
        THEN [ok |-> FALSE, reason |-> "PowerCrossCheck"]
    ELSE [ok |-> TRUE, reason |-> "Valid"]

\* A validator that cross-checks the power whatever the load.
_validate_data_always_cross_checking(d) ==
    IF d = None THEN [ok |-> FALSE, reason |-> "NoData"]
    ELSE IF d.voltage > 0 /\ (d.voltage < 1800 \/ d.voltage > 2800)
        THEN [ok |-> FALSE, reason |-> "VoltageRange"]
    ELSE IF d.current < 0 \/ d.current > 100000
        THEN [ok |-> FALSE, reason |-> "CurrentRange"]
    ELSE IF d.power < 0 \/ d.power > 250000
        THEN [ok |-> FALSE, reason |-> "PowerRange"]
    ELSE IF d.frequency > 0 /\ (d.frequency < 450 \/ d.frequency > 650)
        THEN [ok |-> FALSE, reason |-> "FrequencyRange"]
    ELSE IF d.power_factor < 0 \/ d.power_factor > 100
        THEN [ok |-> FALSE, reason |-> "PowerFactorRange"]
    ELSE IF LET calculated_power == d.voltage * d.current * d.power_factor
            IN Abs(d.power * 100000 - calculated_power) > calculated_power \div 10
        THEN [ok |-> FALSE, reason |-> "PowerCrossCheck"]
    ELSE [ok |-> TRUE, reason |-> "Valid"]

\* _validate_data: <<is_valid, reason>> with the reason as a tag.
_validate_data(d) ==
    IF d = None THEN [ok |-> FALSE, reason |-> "NoData"]
    ELSE IF d.voltage > 0 /\ (d.voltage < 1800 \/ d.voltage > 2800)
        THEN [ok |-> FALSE, reason |-> "VoltageRange"]
    ELSE IF d.current < 0 \/ d.current > 100000
        THEN [ok |-> FALSE, reason |-> "CurrentRange"]
    ELSE IF d.power < 0 \/ d.power > 250000
        THEN [ok |-> FALSE, reason |-> "PowerRange"]
    ELSE IF d.frequency > 0 /\ (d.frequency < 450 \/ d.frequency > 650)
        THEN [ok |-> FALSE, reason |-> "FrequencyRange"]
    ELSE IF d.power_factor < 0 \/ d.power_factor > 100
        THEN [ok |-> FALSE, reason |-> "PowerFactorRange"]
    ELSE IF d.voltage > 100 /\ d.current > 10
            /\ LET calculated_power == d.voltage * d.current * d.power_factor
                   \* |P - VxIxPF| > 0.1 x VxIxPF, all scaled by 10^6
               IN Abs(d.power * 100000 - calculated_power) > calculated_power \div 10
        THEN [ok |-> FALSE, reason |-> "PowerCrossCheck"]
    ELSE [ok |-> TRUE, reason |-> "Valid"]

\* _should_restart_handler
\* A threshold test that lets the count pass the threshold by one.
_should_restart_handler_one_late(t) == consecutive_errors[t] > max_consecutive_errors

_should_restart_handler(t) == consecutive_errors[t] >= max_consecutive_errors

\* A rollover check without the six-hour guard.
_should_reset_unguarded(time) ==
    /\ Hour(time) = 0
    /\ Minute(time) < ResetWindowMinutes

\* _should_reset_daily_counters, evaluated at clock value time
_should_reset_daily_counters(time) ==
    /\ Hour(time) = 0
    /\ Minute(time) < ResetWindowMinutes
    /\ time - last_daily_reset > ResetGuardSeconds

\* A window that gives up the sample just added when it is full.
Keep10_dropping_newest(list, x) ==
    LET l == Append(list, x) IN IF Len(l) > WindowSize THEN SubSeq(l, 1, WindowSize) ELSE l

\* list.append followed by pop(0) once more than 10 entries are held
Keep10(list, x) ==
    LET l == Append(list, x) IN IF Len(l) > WindowSize THEN Tail(l) ELSE l

\* A sleep that is only the remainder of the period.
sleep_time_unfloored(ct) == SleepPeriodMs - ct

\* the adaptive sleep at the end of a loop iteration
sleep_time(ct) == IF ct < SleepPeriodMs THEN Max(SleepFloorMs, SleepPeriodMs - ct) ELSE SleepFloorMs

\* What a poll really was, whatever the program records: decoded and
\* plausible, decoded and implausible, nothing usable in time, a faulty frame.
Classify(resp) ==
    IF resp \in {"silent", "incomplete"} THEN "timeout"
    ELSE IF resp = "corrupt" THEN "error"
    ELSE IF _validate_data(read_response(resp, 0)).ok THEN "success"
    ELSE "invalid"

-----------------------------------------------------------------------------
(* main.py: the monitor *)

ZeroStats == [success |-> 0, error |-> 0, timeout |-> 0, invalid |-> 0]

\* The bench at rest: nothing handed to read_response or _validate_data.
BenchIdle ==
    /\ bench_response = <<>>
    /\ bench_address = 1
    /\ bench_parsed = None
    /\ bench_sample = None
    /\ bench_verdict = None
    /\ bench_data = <<>>
    /\ bench_crc = -1           \* no CRC computed
    /\ bench_command = <<>>
    /\ bench_cycle_time = Unbound
    /\ bench_sleep_time = Unbound

\* No exchange under way on the line looked at by itself.
ExchangeIdle ==
    /\ exchange_pc = "idle"
    /\ line = "silent"
    /\ owed = 0
    /\ uart_rx = 0
    /\ response_len = 0
    /\ waited_ms = 0

\* PZEMTestMonitor.__init__ up to its call of _initialize_pzem (the
\* configuration of config.py passes _validate_config).
Init ==
    /\ now \in StartTimes
    /\ meter \in Profiles
    /\ pc = "init"
    /\ running = TRUE
    /\ pzem = "None"
    /\ handler = NoHandler
    /\ attempt = 0
    /\ retry_delay = initial_retry_delay
    /\ init_from = "ctor"
    /\ last_reading = 0
    /\ last_stats_print = 0
    /\ last_gc_run = 0
    /\ read_count = 0
    /\ stats = [t \in Tenants |-> ZeroStats]
    /\ last_valid_data = [t \in Tenants |-> None]
    /\ consecutive_errors = [t \in Tenants |-> 0]
    /\ last_daily_reset = 0
    /\ timing_stats = [read_a_times |-> <<>>, read_b_times |-> <<>>,
                       total_cycle_times |-> <<>>]
    /\ current_time = 0
    /\ cycle_ms = 0
    /\ cycle_time = Unbound
    /\ data = [t \in Tenants |-> None]
    /\ status = [t \in Tenants |-> None]
    /\ sleeps = <<>>
    /\ restarts = 0
    /\ poll_count = [t \in Tenants |-> 0]
    /\ outcome = [t \in Tenants |-> "none"]
    /\ streak = [t \in Tenants |-> 0]
    /\ last_sample = [t \in Tenants |-> -1]
    /\ before = [handler |-> NoHandler, consecutive_errors |-> [t \in Tenants |-> 0]]
    /\ reset_log = <<>>
    /\ step = "Init"
    /\ gap = [t \in Tenants |-> "none"]
    /\ probes = 0
    /\ alerts = 0
    /\ ExchangeIdle
    /\ broke_off = "none"
    /\ BenchIdle

monitor_vars == <<last_reading, last_stats_print, last_gc_run, read_count, stats,
                  last_valid_data, consecutive_errors, last_daily_reset,
                  timing_stats, current_time, cycle_time, data, status>>

\* Where control goes when _initialize_pzem returns.
InitReturn == IF init_from = "ctor" THEN "run" ELSE "restarted"

\* cleanup(): closes the handler when there is one.
cleanup(h) == IF pzem = "Handler" THEN close(h) ELSE h

\* A backoff that forgets to double.
next_retry_delay_flat(d) == d

\* _initialize_pzem: retry_delay *= 2
next_retry_delay(d) == d * 2

\* A connectivity test that wants a voltage from both meters.
_test_connectivity_requiring_answers(data_a, data_b) ==
    /\ data_a # None /\ data_a.voltage > 0
    /\ data_b # None /\ data_b.voltage > 0

\* _test_connectivity: "return data_a is not None and data_b is not None" on
\* what read_tenant_a and read_tenant_b returned.
_test_connectivity(data_a, data_b) == data_a # None /\ data_b # None

\* One turn of the for loop of _initialize_pzem.  ok: PZEMHandler() is
\* constructed without raising; then _test_connectivity polls both meters
\* through the new handler, 200 ms apart.  The attempt succeeds when the test
\* is true; otherwise the handler is dropped and the loop sleeps and retries,
\* or gives up after the last attempt.
InitAttempt ==
    /\ pc = "init"
    /\ step' = "InitAttempt"
    /\ \E ok \in BOOLEAN, ra \in meter["a"], rb \in meter["b"], d \in Delays :
        LET ta == now
            tb == now + d
            pa == read_tenant(PZEMHandler, "a", ra, ta)
            pb == read_tenant(pa.h, "b", rb, tb)
            tested == ok /\ _test_connectivity(pa.data, pb.data)
            time == IF ok THEN tb ELSE now
            ms == IF ok
                  THEN cycle_ms + ReadTimeMs(ra) + InterReadDelayMs + ReadTimeMs(rb)
                  ELSE cycle_ms
        IN
        /\ IF ok
           THEN /\ poll_count' = [t \in Tenants |-> poll_count[t] + 1]
                /\ last_sample' = [last_sample EXCEPT
                                     !["a"] = IF ra \in FrameKinds THEN ta ELSE @,
                                     !["b"] = IF rb \in FrameKinds THEN tb ELSE @]
                /\ probes' = probes + 1
           ELSE UNCHANGED <<poll_count, last_sample, probes>>
        /\ IF tested
           THEN /\ pzem' = "Handler"
                /\ handler' = pb.h
                /\ now' = time
                /\ cycle_ms' = ms
                /\ pc' = InitReturn
                /\ UNCHANGED <<running, attempt, retry_delay, sleeps>>
           ELSE /\ pzem' = "None"
                /\ handler' = NoHandler
                /\ IF attempt < max_retries - 1
                   THEN /\ sleeps' = Append(sleeps, retry_delay)
                        /\ now' = time + retry_delay
                        /\ cycle_ms' = ms + 1000 * retry_delay
                        /\ retry_delay' = next_retry_delay(retry_delay)
                        /\ attempt' = attempt + 1
                        /\ UNCHANGED <<pc, running>>
                   ELSE /\ running' = FALSE
                        /\ pc' = InitReturn
                        /\ now' = time
                        /\ cycle_ms' = ms
                        /\ UNCHANGED <<retry_delay, attempt, sleeps>>
    /\ UNCHANGED <<meter, init_from, monitor_vars, restarts, outcome, streak,
                   before, reset_log, gap, alerts, broke_off,
                   bench_vars, exchange_vars>>

\* An entry check that lets run() start whatever the initialisation did.
cannot_start_ignored == FALSE

\* run(): "if not self.running or not self.pzem"
cannot_start == ~running \/ pzem = "None"

\* run(): the entry check.
RunEntry ==
    /\ pc = "run"
    /\ step' = "RunEntry"
    /\ pc' = IF cannot_start THEN "done" ELSE "loop"
    /\ UNCHANGED <<now, meter, running, pzem, handler, attempt, retry_delay,
                   init_from, monitor_vars, cycle_ms, sleeps, restarts, poll_count,
                   outcome, streak, last_sample, before, reset_log, gap, probes, alerts, broke_off,
                   bench_vars, exchange_vars>>

\* A restart that zeroes only the counter that reached the threshold.
reset_offending_counter ==
    [t \in Tenants |-> IF _should_restart_handler(t) THEN 0 ELSE consecutive_errors[t]]

\* _restart_pzem_handler: self.consecutive_errors = {'a': 0, 'b': 0}
reset_error_counters == [t \in Tenants |-> 0]

\* A loop that takes a reading in every iteration.
reading_always_due(time) == TRUE

\* run(): current_time - self.last_reading >= SENSOR_READ_INTERVAL
reading_due(time) == time - last_reading >= SENSOR_READ_INTERVAL

\* run(): the top of a loop iteration, up to the first poll.  When a reading
\* is due and a meter has reached the threshold, _restart_pzem_handler closes
\* the handler, zeroes both counters and enters _initialize_pzem.
Tick ==
    /\ pc = "loop"
    /\ step' = "Tick"
    /\ read_count < MaxCycles
    /\ IF ~running
       THEN /\ pc' = "done"
            /\ handler' = cleanup(handler)
            /\ UNCHANGED <<current_time, cycle_ms, read_count,
                           consecutive_errors, attempt, retry_delay, init_from,
                           sleeps, restarts, streak, before>>
       ELSE /\ current_time' = now
            /\ cycle_ms' = 0
            /\ IF reading_due(now)
               THEN /\ read_count' = read_count + 1
                    /\ IF _should_restart_handler("a") \/ _should_restart_handler("b")
                       THEN /\ handler' = close(handler)
                            /\ consecutive_errors' = reset_error_counters
                            /\ attempt' = 0
                            /\ retry_delay' = initial_retry_delay
                            /\ init_from' = "restart"
                            /\ sleeps' = <<>>
                            /\ restarts' = restarts + 1
                            /\ streak' = [t \in Tenants |-> 0]
                            /\ before' = [handler |-> handler, consecutive_errors |-> consecutive_errors]
                            /\ pc' = "init"
                       ELSE /\ pc' = "read_a"
                            /\ UNCHANGED <<handler, consecutive_errors, attempt,
                                           retry_delay, init_from, sleeps, restarts,
                                           streak, before>>
               ELSE /\ pc' = "maint"
                    /\ UNCHANGED <<read_count, handler, consecutive_errors, attempt,
                                   retry_delay, init_from, sleeps, restarts, streak,
                                   before>>
    /\ UNCHANGED <<now, meter, running, pzem, last_reading, last_stats_print,
                   last_gc_run, stats, last_valid_data, last_daily_reset,
                   timing_stats, cycle_time, data, status, poll_count, outcome,
                   last_sample, reset_log, gap, probes, alerts, broke_off,
                   bench_vars, exchange_vars>>

\* A loop that does not look at self.running after a restart.
restart_failed_unchecked == FALSE

\* run(): "if not self.running" after _restart_pzem_handler
restart_failed == ~running

\* run(): back from _restart_pzem_handler; a failed restart leaves the loop
\* through cleanup().
AfterRestart ==
    /\ pc = "restarted"
    /\ step' = "AfterRestart"
    /\ IF restart_failed
       THEN /\ pc' = "done"
            /\ handler' = cleanup(handler)
       ELSE /\ pc' = "read_a"
            /\ UNCHANGED handler
    /\ UNCHANGED <<now, meter, running, pzem, attempt, retry_delay,
                   init_from, monitor_vars, cycle_ms, sleeps, restarts, poll_count,
                   outcome, streak, last_sample, before, reset_log, gap, probes, alerts, broke_off,
                   bench_vars, exchange_vars>>

timing_key(t) == IF t = "a" THEN "read_a_times" ELSE "read_b_times"

\* Statistics that ignore one result type.
_update_stats_dropping_invalid(t, result_type) ==
    IF result_type = "invalid" THEN stats
    ELSE [stats EXCEPT ![t][result_type] = @ + 1]

\* Statistics that start the meter's other counters afresh on every update.
_update_stats_afresh(t, result_type) ==
    [stats EXCEPT ![t] = [ZeroStats EXCEPT ![result_type] = stats[t][result_type] + 1]]

\* A counter update that counts the result for both meters.
_update_stats_for_both(t, result_type) ==
    [u \in Tenants |-> [stats[u] EXCEPT ![result_type] = @ + 1]]

\* _update_stats
_update_stats(t, result_type) ==
    [stats EXCEPT ![t][result_type] = @ + 1]

\* A poll that hands the caller nothing for a reading judged invalid.
_read_tenant_data_withholding_invalid(t, resp, time) ==
    IF pzem = "None"
    THEN \* self.pzem.read_tenant_a raises: the except branch
         [handler |-> handler,
          stats |-> _update_stats(t, "error"),
          consecutive_errors |-> [consecutive_errors EXCEPT ![t] = @ + 1],
          last_valid_data |-> last_valid_data,
          timing_stats |-> timing_stats,
          data |-> None,
          status |-> [kind |-> "Error", reason |-> "NoData"]]
    ELSE LET r == read_tenant(handler, t, resp, time)
             v == _validate_data(r.data)
         IN IF r.data = None
            THEN [handler |-> r.h,
                  stats |-> _update_stats(t, "timeout"),
                  consecutive_errors |-> [consecutive_errors EXCEPT ![t] = @ + 1],
                  last_valid_data |-> last_valid_data,
                  timing_stats |-> timing_stats,
                  data |-> None,
                  status |-> [kind |-> "Communication timeout", reason |-> "NoData"]]
            ELSE IF v.ok
            THEN [handler |-> r.h,
                  stats |-> _update_stats(t, "success"),
                  consecutive_errors |-> [consecutive_errors EXCEPT ![t] = 0],
                  last_valid_data |-> [last_valid_data EXCEPT ![t] = r.data],
                  timing_stats |-> [timing_stats EXCEPT
                                      ![timing_key(t)] = Keep10(@, ReadTimeMs(resp))],
                  data |-> r.data,
                  status |-> [kind |-> "OK", reason |-> v.reason]]
            ELSE [handler |-> r.h,
                  stats |-> _update_stats(t, "invalid"),
                  consecutive_errors |-> [consecutive_errors EXCEPT ![t] = @ + 1],
                  last_valid_data |-> last_valid_data,
                  timing_stats |-> timing_stats,
                  data |-> None,
                  status |-> [kind |-> "Invalid data", reason |-> v.reason]]

\* A poll whose integration is undone when the validator rejects the sample.
_read_tenant_data_integrating_valid_only(t, resp, time) ==
    IF pzem = "None"
    THEN \* self.pzem.read_tenant_a raises: the except branch
         [handler |-> handler,
          stats |-> _update_stats(t, "error"),
          consecutive_errors |-> [consecutive_errors EXCEPT ![t] = @ + 1],
          last_valid_data |-> last_valid_data,
          timing_stats |-> timing_stats,
          data |-> None,
          status |-> [kind |-> "Error", reason |-> "NoData"]]
    ELSE LET r == read_tenant(handler, t, resp, time)
             v == _validate_data(r.data)
         IN IF r.data = None
            THEN [handler |-> r.h,
                  stats |-> _update_stats(t, "timeout"),
                  consecutive_errors |-> [consecutive_errors EXCEPT ![t] = @ + 1],
                  last_valid_data |-> last_valid_data,
                  timing_stats |-> timing_stats,
                  data |-> None,
                  status |-> [kind |-> "Communication timeout", reason |-> "NoData"]]
            ELSE IF v.ok
            THEN [handler |-> r.h,
                  stats |-> _update_stats(t, "success"),
                  consecutive_errors |-> [consecutive_errors EXCEPT ![t] = 0],
                  last_valid_data |-> [last_valid_data EXCEPT ![t] = r.data],
                  timing_stats |-> [timing_stats EXCEPT
                                      ![timing_key(t)] = Keep10(@, ReadTimeMs(resp))],
                  data |-> r.data,
                  status |-> [kind |-> "OK", reason |-> v.reason]]
            ELSE [handler |-> handler,
                  stats |-> _update_stats(t, "invalid"),
                  consecutive_errors |-> [consecutive_errors EXCEPT ![t] = @ + 1],
                  last_valid_data |-> last_valid_data,
                  timing_stats |-> timing_stats,
                  data |-> r.data,
                  status |-> [kind |-> "Invalid data", reason |-> v.reason]]

\* _read_tenant_data for tenant t, the meter answering resp and the poll
\* ending at clock value time: the fields it (and the handler call in it)
\* writes, and the data it returns.
\* The status is the message's fixed part and the validation reason.
_read_tenant_data(t, resp, time) ==
    IF pzem = "None"
    THEN \* self.pzem.read_tenant_a raises: the except branch
         [handler |-> handler,
          stats |-> _update_stats(t, "error"),
          consecutive_errors |-> [consecutive_errors EXCEPT ![t] = @ + 1],
          last_valid_data |-> last_valid_data,
          timing_stats |-> timing_stats,
          data |-> None,
          status |-> [kind |-> "Error", reason |-> "NoData"]]
    ELSE LET r == read_tenant(handler, t, resp, time)
             v == _validate_data(r.data)
         IN IF r.data = None
            THEN [handler |-> r.h,
                  stats |-> _update_stats(t, "timeout"),
                  consecutive_errors |-> [consecutive_errors EXCEPT ![t] = @ + 1],
                  last_valid_data |-> last_valid_data,
                  timing_stats |-> timing_stats,
                  data |-> None,
                  status |-> [kind |-> "Communication timeout", reason |-> "NoData"]]
            ELSE IF v.ok
            THEN [handler |-> r.h,
                  stats |-> _update_stats(t, "success"),
                  consecutive_errors |-> [consecutive_errors EXCEPT ![t] = 0],
                  last_valid_data |-> [last_valid_data EXCEPT ![t] = r.data],
                  timing_stats |-> [timing_stats EXCEPT
                                      ![timing_key(t)] = Keep10(@, ReadTimeMs(resp))],
                  data |-> r.data,
                  status |-> [kind |-> "OK", reason |-> v.reason]]
            ELSE [handler |-> r.h,
                  stats |-> _update_stats(t, "invalid"),
                  consecutive_errors |-> [consecutive_errors EXCEPT ![t] = @ + 1],
                  last_valid_data |-> last_valid_data,
                  timing_stats |-> timing_stats,
                  data |-> r.data,
                  status |-> [kind |-> "Invalid data", reason |-> v.reason]]

\* A poll that lets a frame fault escape into run().
poll_raises_on_fault(resp) == resp \in FaultKinds

\* Whether _read_tenant_data lets an exception escape into run(): never, the
\* handler swallows frame faults and _read_tenant_data catches Exception.
poll_raises(resp) == FALSE

\* Where a sample at time lies relative to the previous sample at prev.
GapKind(prev, time) ==
    IF prev < 0 THEN "first"
    ELSE IF time - prev <= 0 THEN "nonpositive"
    ELSE IF time - prev <= 10 THEN "within"
    ELSE "beyond"

\* The history kept about a monitored poll.
Observe(t, resp, time) ==
    /\ poll_count' = [poll_count EXCEPT ![t] = @ + 1]
    /\ outcome' = [outcome EXCEPT ![t] = Classify(resp)]
    /\ streak' = [streak EXCEPT ![t] = IF Classify(resp) = "success" THEN 0 ELSE @ + 1]
    /\ last_sample' = [last_sample EXCEPT
                         ![t] = IF resp \in FrameKinds /\ pzem = "Handler" THEN time ELSE @]
    /\ gap' = [gap EXCEPT
                 ![t] = IF resp \in FrameKinds /\ pzem = "Handler"
                        THEN GapKind(last_sample[t], time)
                        ELSE @]

\* run(): read Tenant A, then the inter-reading delay.
ReadA ==
    /\ pc = "read_a"
    /\ step' = "ReadA"
    /\ \E resp \in meter["a"] :
        LET r == _read_tenant_data("a", resp, now) IN
        /\ handler' = r.handler
        /\ stats' = r.stats
        /\ consecutive_errors' = r.consecutive_errors
        /\ last_valid_data' = r.last_valid_data
        /\ timing_stats' = r.timing_stats
        /\ data' = [data EXCEPT !["a"] = r.data]
        /\ status' = [status EXCEPT !["a"] = r.status]
        /\ Observe("a", resp, now)
        /\ cycle_ms' = cycle_ms + ReadTimeMs(resp) + InterReadDelayMs
        /\ pc' = IF poll_raises(resp) THEN "done" ELSE "read_b"
    /\ UNCHANGED <<now, meter, running, pzem, attempt, retry_delay, init_from,
                   last_reading, last_stats_print, last_gc_run, read_count,
                   last_daily_reset, current_time, cycle_time, sleeps, restarts,
                   before, reset_log, probes, alerts, broke_off,
                   bench_vars, exchange_vars>>

\* run(): read Tenant B, then record the reading time and the cycle's
\* duration in its window.
ReadB ==
    /\ pc = "read_b"
    /\ step' = "ReadB"
    /\ \E resp \in meter["b"] :
        LET r == _read_tenant_data("b", resp, now)
            ct == cycle_ms + ReadTimeMs(resp)
        IN
        /\ handler' = r.handler
        /\ stats' = r.stats
        /\ consecutive_errors' = r.consecutive_errors
        /\ last_valid_data' = r.last_valid_data
        /\ data' = [data EXCEPT !["b"] = r.data]
        /\ status' = [status EXCEPT !["b"] = r.status]
        /\ Observe("b", resp, now)
        /\ cycle_ms' = ct
        /\ cycle_time' = ct
        /\ timing_stats' = [r.timing_stats EXCEPT !.total_cycle_times = Keep10(@, ct)]
        /\ pc' = IF poll_raises(resp) THEN "done" ELSE "maint"
    /\ last_reading' = current_time
    /\ UNCHANGED <<now, meter, running, pzem, attempt, retry_delay, init_from,
                   last_stats_print, last_gc_run, read_count, last_daily_reset,
                   current_time, sleeps, restarts, before, reset_log, probes, alerts, broke_off,
                   bench_vars, exchange_vars>>

\* run(): periodic maintenance, the midnight rollover and the adaptive sleep.
\* Reading cycle_time before any cycle has assigned it raises, which ends the
\* loop through the handler for unexpected errors and cleanup().
Maintain ==
    /\ pc = "maint"
    /\ step' = "Maintain"
    /\ last_stats_print' =
         IF current_time - last_stats_print >= StatsPeriod THEN current_time ELSE last_stats_print
    /\ last_gc_run' =
         IF current_time - last_gc_run >= GcPeriod THEN current_time ELSE last_gc_run
    /\ LET reset == _should_reset_daily_counters(now)
           h == IF reset THEN reset_daily_counters(handler) ELSE handler
       IN /\ last_daily_reset' = IF reset THEN current_time ELSE last_daily_reset
          /\ reset_log' = IF reset THEN Append(reset_log, now) ELSE reset_log
          /\ IF cycle_time = Unbound
             THEN /\ pc' = "done"
                  /\ handler' = cleanup(h)
                  /\ now' = now
             ELSE /\ pc' = "loop"
                  /\ handler' = h
                  /\ \E d \in Delays : now' = now + d
    /\ UNCHANGED <<meter, running, pzem, attempt, retry_delay, init_from,
                   last_reading, read_count, stats, last_valid_data,
                   consecutive_errors, timing_stats, current_time, cycle_ms,
                   cycle_time, data, status, sleeps, restarts, poll_count, outcome,
                   streak,
                   last_sample, before, gap, probes, alerts, broke_off,
                   bench_vars, exchange_vars>>

\* What the thread can be doing when a KeyboardInterrupt reaches it at pc:
\* the polls and the connectivity test are a request written to the UART and
\* a wait for the answer, and nothing between uart.write and the accounting
\* holds the interrupt back.
InterruptPoints(at) ==
    IF at \in {"read_a", "read_b"} THEN {"cycle", "exchange"}
    ELSE IF at = "init" THEN {"restart", "exchange"}
    ELSE IF at = "restarted" THEN {"restart"}
    ELSE {"idle"}

\* KeyboardInterrupt inside run()'s try block, and the cleanup() that follows.
\* An exchange broken off has sent its request and updates nothing.
Interrupt ==
    /\ pc \in {"loop", "read_a", "read_b", "maint", "restarted"}
         \/ (pc = "init" /\ init_from = "restart")
    /\ pc' = "done"
    /\ step' = "Interrupt"
    /\ handler' = cleanup(handler)
    /\ broke_off' \in InterruptPoints(pc)
    /\ UNCHANGED <<now, meter, running, pzem, attempt, retry_delay,
                   init_from, monitor_vars, cycle_ms, sleeps, restarts, poll_count,
                   outcome, streak, last_sample, before, reset_log, gap, probes,
                   alerts, bench_vars, exchange_vars>>

Next ==
    \/ InitAttempt
    \/ RunEntry
    \/ Tick
    \/ AfterRestart
    \/ ReadA
    \/ ReadB
    \/ Maintain
    \/ Interrupt

Spec == Init /\ [][Next]_vars

-----------------------------------------------------------------------------
(* The bench: one pure function applied once to a chosen input, the       *)
(* monitor standing still.                                                 *)

\* Register contents put on the wire.
RegisterSets ==
    { FrameRegisters(k) : k \in FrameKinds } \cup
    { <<2200, 1500, 0, 500, 0, 0, 0, 500, 0, 950>>,
      <<2200, 1500, 0, 500, 0, 0, 0, 500, 95, 0>>,
      <<2300, 5000, 0, 11500, 0, 0, 0, 500, 250, 0>>,    \* register 8 above 100
      <<2300, 0, 0, 500, 0, 0, 0, 500, 95, 0>>,          \* no current
      <<2300, 1500, 0, 0, 0, 0, 0, 500, 95, 0>>,         \* no power
      <<2300, 1, 1, 2, 1, 3, 1, 600, 65535, 7>> }        \* high words in use

Addresses == {1, 2}             \* address_a, address_b
FunctionCodes == {4, 132, 3}    \* read input registers, its error reply, another
ByteCounts == {20, 2}
\* How much of the frame is collected: nothing, an error reply's five bytes,
\* one byte short, the frame, the frame and a stray byte (a zero, then a
\* 255), and 26 bytes that end in the CRC of the 24 before them.
Cuts == {"empty", "five", "short", "whole", "stray", "noise", "long"}

\* The bytes collected for a frame the meter sent.
Collected(addr, function, count, regs, crc_good, cut) ==
    LET f == Frame(addr, function, count, regs)
        g == IF crc_good THEN f ELSE [f EXCEPT ![24] = (@ + 1) % 256]
        body == SubSeq(g, 1, 23) \o <<0>>
        crc == crc16_modbus(body)
        tail == IF crc_good THEN crc ELSE (crc + 1) % 65536
    IN CASE cut = "empty" -> <<>>
         [] cut = "five" -> SubSeq(g, 1, 5)
         [] cut = "short" -> SubSeq(g, 1, 24)
         [] cut = "whole" -> g
         [] cut = "stray" -> g \o <<0>>
         [] cut = "noise" -> g \o <<255>>
         [] cut = "long" -> body \o <<tail % 256, tail \div 256>>

\* Readings handed to _validate_data, in the units of the model.
Samples ==
    [voltage : {0, 1700, 2300, 3000},
     current : {-1, 0, 5000, 100001},
     power : {-1, 0, 11500, 20000, 250001},
     energy : {0},
     frequency : {0, 400, 500},
     power_factor : {0, 100, 101},
     timestamp : {0}]

\* Readings inside every range, around the limits of the cross-check:
\* no voltage, 0.010 A and 0.011 A, and powers at and next to 90% and 110%
\* of V*I*PF.
CrossSamples ==
    [voltage : {0, 2300},
     current : {0, 10, 11, 5000},
     power : {0, 22, 23, 25, 27, 28, 5175, 10349, 10350, 11500, 12650, 12651},
     energy : {0},
     frequency : {500},
     power_factor : {0, 50, 100},
     timestamp : {0}]

\* The variables of the monitor.
monitor_state == <<now, meter, pc, running, pzem, handler, attempt, retry_delay,
                   init_from, monitor_vars, cycle_ms, sleeps, restarts, poll_count,
                   outcome, streak, last_sample, before, reset_log, gap, probes,
                   alerts, broke_off>>

BenchInit ==
    /\ Init
    /\ now = 0
    /\ meter = [a |-> {"normal"}, b |-> {"normal", "corrupt"}]

\* read_response on the bytes collected for one request.
Parse ==
    /\ BenchIdle
    /\ step' = "Parse"
    /\ \E addr \in Addresses, function \in FunctionCodes, count \in ByteCounts,
          regs \in RegisterSets, crc_good \in BOOLEAN, cut \in Cuts,
          expected \in Addresses :
        LET bytes == Collected(addr, function, count, regs, crc_good, cut) IN
        /\ bench_response' = bytes
        /\ bench_address' = expected
        /\ bench_parsed' = read_response_bytes(bytes, expected, now)
    /\ bench_sample' = None
    /\ bench_verdict' = None
    /\ UNCHANGED <<monitor_state, exchange_vars, bench_data, bench_crc, bench_command,
                   bench_cycle_time, bench_sleep_time>>

\* _validate_data on one reading.
Validate ==
    /\ BenchIdle
    /\ step' = "Validate"
    /\ \E d \in Samples \cup CrossSamples :
        /\ bench_sample' = d
        /\ bench_verdict' = _validate_data(d)
    /\ bench_response' = <<>>
    /\ bench_address' = 1
    /\ bench_parsed' = None
    /\ UNCHANGED <<monitor_state, exchange_vars, bench_data, bench_crc, bench_command,
                   bench_cycle_time, bench_sleep_time>>

\* Byte values the free byte strings are made of.
SomeBytes == {0, 1, 4, 10, 128, 255}

\* Byte strings handed to crc16_modbus: every single byte, every string of
\* up to MaxLen of the chosen bytes, and the six bytes of each read request.
ByteStrings ==
    { <<b>> : b \in 0..255 }
        \cup UNION { [1..n -> SomeBytes] : n \in 0..MaxLen }
        \cup { <<a, 4, 0, 0, 0, 10>> : a \in 0..255 }

\* crc16_modbus on one byte string.
Checksum ==
    /\ BenchIdle
    /\ step' = "Checksum"
    /\ \E bytes \in ByteStrings :
        /\ bench_data' = bytes
        /\ bench_crc' = crc16_modbus(bytes)
    /\ UNCHANGED <<monitor_state, exchange_vars, bench_response, bench_address, bench_parsed,
                   bench_sample, bench_verdict, bench_command, bench_cycle_time,
                   bench_sleep_time>>

\* build_read_command for one address; a bytearray element is 0..255.
Build ==
    /\ BenchIdle
    /\ step' = "Build"
    /\ \E address \in 0..255 :
        /\ bench_address' = address
        /\ bench_command' = build_read_command(address)
    /\ UNCHANGED <<monitor_state, exchange_vars, bench_response, bench_parsed, bench_sample,
                   bench_verdict, bench_data, bench_crc, bench_cycle_time,
                   bench_sleep_time>>

\* Cycle durations in ms: every one up to and past the period, and the
\* durations of cycles with timeouts and with a restart in them.
CycleTimes == 0..450 \cup {800, 900, 1600, 6800}

\* run(): the adaptive sleep at the end of an iteration, for one cycle_time.
Sleep ==
    /\ BenchIdle
    /\ step' = "Sleep"
    /\ \E ct \in CycleTimes :
        /\ bench_cycle_time' = ct
        /\ bench_sleep_time' = sleep_time(ct)
    /\ UNCHANGED <<monitor_state, exchange_vars, bench_response, bench_address, bench_parsed,
                   bench_sample, bench_verdict, bench_data, bench_crc, bench_command>>

BenchNext ==
    \/ Parse
    \/ Validate
    \/ Checksum
    \/ Build
    \/ Sleep

BenchSpec == BenchInit /\ [][BenchNext]_vars

-----------------------------------------------------------------------------
(* One exchange on one line, step by step: send_command followed by        *)
(* read_response, with the meter's bytes arriving in between the program's *)
(* steps.  Only the number of bytes matters here.                          *)

\* A meter that never answers, one that answers a request with a 25-byte
\* frame, and one that transmits without pause.
Lines == {"silent", "answering", "babbling"}

\* Bytes left in the UART by an earlier exchange.
StaleBytes == {0, 3}

FrameLength == 25       \* len(response) >= 25
PollPauseMs == 10       \* utime.sleep_ms(10) in the receive loop

\* read_tenant_a / read_tenant_b call send_command.
StartExchange ==
    /\ exchange_pc = "idle"
    /\ \E l \in Lines, stale \in StaleBytes :
        /\ line' = l
        /\ uart_rx' = stale
    /\ exchange_pc' = "drain"
    /\ step' = "StartExchange"
    /\ UNCHANGED <<monitor_state, bench_vars, owed, response_len, waited_ms>>

\* The meter puts bytes on the line: part of the answer it owes, or anything
\* at any time when it transmits without pause.
Arrive ==
    /\ exchange_pc \in {"drain", "wait", "receive"}
    /\ uart_rx < MaxRx
    /\ \/ /\ line = "babbling"
          /\ \E n \in {1, FrameLength} : uart_rx' = IF uart_rx + n > MaxRx THEN MaxRx ELSE uart_rx + n
          /\ UNCHANGED owed
       \/ /\ line = "answering" /\ owed > 0
          /\ \E n \in {5, owed} :
              /\ n <= owed
              /\ uart_rx' = IF uart_rx + n > MaxRx THEN MaxRx ELSE uart_rx + n
              /\ owed' = owed - n
    /\ step' = "Arrive"
    /\ UNCHANGED <<monitor_state, bench_vars, exchange_pc, line, response_len, waited_ms>>

\* send_command: one turn of "while uart.any(): uart.read()", and behind the
\* loop uart.write(command).
Drain ==
    /\ exchange_pc = "drain"
    /\ IF uart_rx > 0
       THEN /\ uart_rx' = 0
            /\ UNCHANGED <<exchange_pc, owed>>
       ELSE /\ exchange_pc' = "wait"
            /\ owed' = IF line = "answering" THEN FrameLength ELSE 0
            /\ UNCHANGED uart_rx
    /\ step' = "Drain"
    /\ UNCHANGED <<monitor_state, bench_vars, line, response_len, waited_ms>>

\* send_command: utime.sleep_ms(100); then read_response starts its clock
\* with an empty response.
WaitForAnswer ==
    /\ exchange_pc = "wait"
    /\ exchange_pc' = "receive"
    /\ response_len' = 0
    /\ waited_ms' = 0
    /\ step' = "WaitForAnswer"
    /\ UNCHANGED <<monitor_state, bench_vars, line, owed, uart_rx>>

\* read_response: one turn of the receive loop.
Receive ==
    /\ exchange_pc = "receive"
    /\ IF waited_ms >= timeout_ms
       THEN /\ exchange_pc' = "returned"
            /\ UNCHANGED <<uart_rx, response_len, waited_ms>>
       ELSE IF uart_rx > 0
       THEN /\ response_len' = response_len + uart_rx
            /\ uart_rx' = 0
            /\ IF response_len + uart_rx >= FrameLength
               THEN exchange_pc' = "returned" /\ UNCHANGED waited_ms
               ELSE waited_ms' = waited_ms + PollPauseMs /\ UNCHANGED exchange_pc
       ELSE /\ waited_ms' = waited_ms + PollPauseMs
            /\ UNCHANGED <<exchange_pc, uart_rx, response_len>>
    /\ step' = "Receive"
    /\ UNCHANGED <<monitor_state, bench_vars, line, owed>>

\* The steps of the program, as against those of the meter.
ExchangeStep ==
    \/ StartExchange
    \/ Drain
    \/ WaitForAnswer
    \/ Receive

ExchangeNext ==
    \/ ExchangeStep
    \/ Arrive

\* The program is never held up: the interpreter runs its next statement.
ExchangeSpec == BenchInit /\ [][ExchangeNext]_vars /\ WF_vars(ExchangeStep)

-----------------------------------------------------------------------------
(* Properties *)

\* The step is the monitoring loop's poll of tenant t.
PollStep(t) == step' = (IF t = "a" THEN "ReadA" ELSE "ReadB")

\* The poll just made got nothing the handler could decode.
Undecodable(t) == outcome'[t] \in {"timeout", "error"}

\* C1: the handler is restarted only when a meter has had 10 polls in a row
\* that were not a Success (Timeout, Error or Invalid), and a meter with 10
\* such polls behind it is not polled again before the restart.
C1_RestartAtTenthFailure ==
    [][ /\ (step' = "Tick" /\ restarts' = restarts + 1)
            => \E t \in Tenants : streak[t] >= 10
        /\ \A t \in Tenants : PollStep(t) => streak[t] < 10 ]_vars

\* C2: a poll whose response cannot be decoded is counted as timeout or
\* error, does not increment the success counter and does not reset the
\* consecutive-failure count.
C2_UndecodableIsNeverSuccess ==
    [][ \A t \in Tenants : (PollStep(t) /\ Undecodable(t)) =>
          /\ stats'[t].success = stats[t].success
          /\ stats'[t].timeout + stats'[t].error
               = stats[t].timeout + stats[t].error + 1
          /\ consecutive_errors'[t] # 0 ]_vars

\* C3: after a poll the consecutive-failure count is 0 when the poll was a
\* Success and one more than before when it was Invalid, Timeout or Error.
C3_ConsecutiveFollowsOutcome ==
    [][ \A t \in Tenants : PollStep(t) =>
          consecutive_errors'[t] =
              IF outcome'[t] = "success" THEN 0 ELSE consecutive_errors[t] + 1 ]_vars

\* C4: when a restart has succeeded, each meter's lifetime energy, daily
\* energy and last-sample timestamp are what they were just before it.
C4_RestartPreservesTotals ==
    (pc = "restarted" /\ running) =>
        \A t \in Tenants :
            /\ handler.energy[t] = before.handler.energy[t]
            /\ handler.daily_energy[t] = before.handler.daily_energy[t]
            /\ handler.last_reading[t] = before.handler.last_reading[t]

\* C5: _initialize_pzem makes at most 3 attempts, sleeps 2 s after the first
\* failure and 4 s after the second and not after the third, and returns
\* without a handler only after 3 failures, with running false.
C5_BoundedBackoff ==
    /\ attempt \in 0..2
    /\ sleeps = SubSeq(<<2, 4>>, 1, attempt)
    /\ (pzem = "None" /\ pc \in {"run", "restarted"}) => (~running /\ attempt = 2)
    /\ ~running => (pzem = "None" /\ pc # "init" /\ sleeps = <<2, 4>>)

\* C5 witness: a restart whose three attempts all failed.
C5_Witness ==
    pc = "restarted" /\ ~running /\ sleeps = <<2, 4>> /\ restarts = 1

\* C6: back from a successful restart both consecutive-failure counts are 0,
\* a handler is open, and the loop goes on to poll tenant A.
C6_RestartResetsBothCounters ==
    [][ (pc = "restarted" /\ running) =>
          /\ \A t \in Tenants : consecutive_errors[t] = 0
          /\ pzem = "Handler" /\ handler.open
          /\ step' = "AfterRestart" => pc' = "read_a" ]_vars

\* C6 witness: a restart that succeeded on a later attempt while the other
\* meter's count was between 1 and 9.
C6_Witness ==
    /\ pc = "read_a" /\ step = "AfterRestart" /\ running
    /\ Len(sleeps) >= 1
    /\ \E t \in Tenants : before.consecutive_errors[t] \in 1..9

\* C7: once running is false it stays false, run() only returns, no meter
\* is polled and no total, statistic or consecutive count changes.
C7_TerminatedIsAbsorbing ==
    [][ ~running =>
          /\ ~running'
          /\ pc' = "done"
          /\ poll_count' = poll_count
          /\ stats' = stats
          /\ consecutive_errors' = consecutive_errors
          /\ handler'.energy = handler.energy
          /\ handler'.daily_energy = handler.daily_energy
          /\ handler'.last_reading = handler.last_reading ]_vars

\* C7 witness: run() has returned after a restart exhausted its attempts.
C7_Witness ==
    /\ ~running /\ pc = "done" /\ init_from = "restart"
    /\ \E t \in Tenants : stats[t].invalid >= 10

InResetWindow(time) == Hour(time) = 0 /\ Minute(time) < 5
SameDay(t1, t2) == t1 \div SecondsPerDay = t2 \div SecondsPerDay
LastRollover == IF reset_log = <<>> THEN 0 ELSE reset_log[Len(reset_log)]

\* C8: a tick of the loop resets the daily totals of both meters exactly when
\* it falls in the 00:00-00:05 window, more than 6 hours after the last
\* rollover, and no earlier tick of the same window has reset them; every
\* other tick leaves the daily totals alone.
C8_RolloverOncePerWindow ==
    [][ step' = "Maintain" =>
          IF /\ InResetWindow(now)
             /\ now - LastRollover > 6 * 3600
             /\ \A i \in 1..Len(reset_log) : ~SameDay(reset_log[i], now)
          THEN /\ reset_log' = Append(reset_log, now)
               /\ \A t \in Tenants : handler'.daily_energy[t] = 0
          ELSE /\ reset_log' = reset_log
               /\ handler'.daily_energy = handler.daily_energy ]_vars

\* C8 witness: the window's first tick has reset totals that had energy in
\* them, and a later tick of the same window has run.
C8_Witness ==
    /\ step = "Maintain" /\ pc = "loop"
    /\ Len(reset_log) = 1
    /\ InResetWindow(now) /\ now >= reset_log[1] + 2
    /\ \E t \in Tenants : handler.energy[t] > 0

\* C9: a poll that decodes nothing returns zero voltage, current, power,
\* frequency and power factor together with the totals held before the poll,
\* and leaves the totals and the last-sample timestamp as they were.
C9_FailedPollKeepsTotals ==
    [][ \A t \in Tenants : (PollStep(t) /\ Undecodable(t)) =>
          /\ data'[t].voltage = 0 /\ data'[t].current = 0 /\ data'[t].power = 0
          /\ data'[t].frequency = 0 /\ data'[t].power_factor = 0
          /\ data'[t].energy = handler.energy[t]
          /\ data'[t].daily_energy = handler.daily_energy[t]
          /\ handler'.energy[t] = handler.energy[t]
          /\ handler'.daily_energy[t] = handler.daily_energy[t]
          /\ handler'.last_reading[t] = handler.last_reading[t] ]_vars

\* C9 witness: a faulty frame from a meter that has accumulated energy.
C9_Witness ==
    /\ step = "ReadA" /\ outcome["a"] = "error"
    /\ data["a"].voltage = 0 /\ data["a"].energy > 0
    /\ handler.energy["a"] = data["a"].energy

\* C10: a sample decoded at most 10 s after the meter's previous sample adds
\* power * seconds / 3600 / 1000 kWh to the lifetime and the daily total; for
\* 1000 W sampled at 0 and at 5 that is 0.0013889 kWh to within 1e-6 (in
\* 0.1 W*s: 50000.4 to within 36).
C10_IntegratesShortGaps ==
    [][ \A t \in Tenants :
          LET delta == now' - last_sample[t] IN
          (PollStep(t) /\ outcome'[t] \in {"success", "invalid"}
             /\ last_sample[t] >= 0 /\ 0 < delta /\ delta <= 10) =>
            /\ handler'.energy[t] = handler.energy[t] + data'[t].power * delta
            /\ handler'.daily_energy[t]
                 = handler.daily_energy[t] + data'[t].power * delta
            /\ (data'[t].power = 10000 /\ last_sample[t] = 0 /\ now' = 5) =>
                 Abs(10 * (handler'.energy[t] - handler.energy[t]) - 500004) <= 360 ]_vars

\* The poll just made decoded a frame.
Decoded(t) == outcome'[t] \in {"success", "invalid"}

\* C11: a decoded sample always sets the meter's last-sample timestamp to the
\* sample time, and when it is the meter's first sample or its distance to
\* the previous sample is not in (0, 10] s it leaves both totals unchanged.
C11_OutOfWindowOnlyStamps ==
    [][ \A t \in Tenants :
          LET delta == now' - last_sample[t] IN
          (PollStep(t) /\ Decoded(t)) =>
            /\ handler'.last_reading[t] = now'
            /\ (last_sample[t] < 0 \/ delta <= 0 \/ delta > 10) =>
                 /\ handler'.energy[t] = handler.energy[t]
                 /\ handler'.daily_energy[t] = handler.daily_energy[t] ]_vars

\* C11 witness: meter B decoded under load more than 10 s after its previous
\* sample, on the same handler, and nothing was added.
C11_Witness ==
    /\ step = "ReadB" /\ outcome["b"] = "success" /\ gap["b"] = "beyond"
    /\ restarts = 0 /\ data["b"].power > 0
    /\ handler.last_reading["b"] = now /\ handler.energy["b"] = 0

\* C12: the daily rollover sets both daily totals to 0 and leaves both
\* lifetime totals and both last-sample timestamps as they were.
C12_ResetDailyOnlyDaily ==
    [][ (step' = "Maintain" /\ reset_log' # reset_log) =>
          \A t \in Tenants :
            /\ handler'.daily_energy[t] = 0
            /\ handler'.energy[t] = handler.energy[t]
            /\ handler'.last_reading[t] = handler.last_reading[t] ]_vars

\* C12 witness: a rollover has cleared daily totals while lifetime energy
\* and timestamps are kept.
C12_Witness ==
    /\ step = "Maintain" /\ reset_log # <<>>
    /\ \A t \in Tenants : handler.daily_energy[t] = 0 /\ handler.last_reading[t] > 0
    /\ handler.energy["a"] > 0 /\ handler.energy["b"] > 0

Total(t) == stats[t].success + stats[t].error + stats[t].timeout + stats[t].invalid
\* Polls of the monitoring loop: every request sent, less the connectivity tests'.
MonitoredPolls(t) == poll_count[t] - probes
ResultTypes == {"success", "error", "timeout", "invalid"}

C14_CountersNeverDecrease ==
    [][ \A t \in Tenants : \A k \in ResultTypes : stats'[t][k] >= stats[t][k] ]_vars

\* C14 witness: counters kept through a daily rollover and a restart.
C14_Witness ==
    /\ step = "AfterRestart" /\ pc = "read_a" /\ restarts = 1
    /\ reset_log # <<>>
    /\ \E t \in Tenants : stats[t].invalid >= 10

\* C15: when the poll of meter A decodes nothing, meter B is polled next in
\* the same cycle, the cycle runs to its end and the loop starts the next
\* one; running stays true throughout.
C15_FrameErrorDoesNotHalt ==
    [][ /\ (PollStep("a") /\ Undecodable("a")) => (pc' = "read_b" /\ running')
        /\ (step' = "ReadB" /\ outcome["a"] \in {"timeout", "error"}) =>
              /\ pc' = "maint" /\ running'
              /\ poll_count'["b"] = poll_count["b"] + 1
        /\ (step' = "Maintain" /\ step = "ReadB" /\ outcome["a"] \in {"timeout", "error"}) =>
              (pc' = "loop" /\ running')
        /\ (step' = "Tick" /\ step = "Maintain" /\ outcome["a"] \in {"timeout", "error"}) =>
              (pc' # "done" /\ running') ]_vars

\* C15 witness: the cycle after one in which A's frame was faulty and B was
\* polled has begun.
C15_Witness ==
    /\ step = "Tick" /\ pc = "read_a" /\ running
    /\ outcome["a"] = "error" /\ outcome["b"] = "invalid"
    /\ read_count >= 2

-----------------------------------------------------------------------------
(* Properties of the codec and the validator, checked under BenchSpec *)

\* Register i of a response as the wire format defines it: high byte first.
WireRegister(r, i) == 256 * r[4 + 2 * i] + r[5 + 2 * i]

\* The trailing two bytes are the CRC16, low byte first, of all bytes before them.
ChecksumMatches(r) ==
    /\ Len(r) >= 2
    /\ crc16_modbus(SubSeq(r, 1, Len(r) - 2)) = r[Len(r) - 1] + 256 * r[Len(r)]

\* C16: read_response returns a reading exactly when at least 25 bytes were
\* collected, byte 0 is the expected address, byte 1 is 0x04, byte 2 is 20
\* and the checksum matches; otherwise it returns None.
C16_ReadingIffWellFormed ==
    step = "Parse" =>
        LET r == bench_response IN
        (bench_parsed.reading # None) <=>
            /\ Len(r) >= 25
            /\ r[1] = bench_address
            /\ r[2] = 4
            /\ r[3] = 20
            /\ ChecksumMatches(r)

\* C16 witness: a 25-byte frame from meter B was accepted.
C16_Witness ==
    /\ step = "Parse" /\ Len(bench_response) = 25 /\ bench_address = 2
    /\ bench_parsed.reading # None

\* Check number i of the fixed order fails on response r for address a.
FailsCheck(i, r, a) ==
    CASE i = 1 -> Len(r) < 25
      [] i = 2 -> Len(r) >= 1 /\ r[1] # a
      [] i = 3 -> Len(r) >= 2 /\ r[2] # 4
      [] i = 4 -> Len(r) >= 3 /\ r[3] # 20
      [] i = 5 -> ~ChecksumMatches(r)

\* The name of check i's failure on r.
FailureName(i, r) ==
    CASE i = 1 -> "Incomplete response"
      [] i = 2 -> "Wrong address in response"
      [] i = 3 -> IF r[2] = 132 THEN "Modbus error" ELSE "Wrong function code"
      [] i = 4 -> "Wrong byte count"
      [] i = 5 -> "CRC error"

\* C17: a rejected response is rejected for the first check it fails in the
\* order incomplete, address, function (device error for 0x84, carrying
\* byte 2 as its code), byte count, CRC.
C17_FirstFailedCheckReported ==
    step = "Parse" =>
        LET r == bench_response
            failed == {i \in 1..5 : FailsCheck(i, r, bench_address)}
        IN IF failed = {}
           THEN bench_parsed.returned_at = "none"
           ELSE LET first == CHOOSE i \in failed : \A j \in failed : i <= j IN
                /\ bench_parsed.returned_at = FailureName(first, r)
                /\ bench_parsed.reading = None
                /\ (Len(r) >= 25 /\ r[1] = bench_address /\ r[2] = 132) =>
                      /\ bench_parsed.returned_at = "Modbus error"
                      /\ bench_parsed.error_code = r[3]

\* C17 witness: a device error reply that also has a wrong byte count and a
\* wrong CRC is reported as the device error with its code.
C17_Witness ==
    /\ step = "Parse" /\ Len(bench_response) = 25
    /\ bench_response[2] = 132 /\ bench_response[3] = 2
    /\ ~ChecksumMatches(bench_response)
    /\ bench_parsed.returned_at = "Modbus error" /\ bench_parsed.error_code = 2

\* The frame of the decode example.
ExampleRegisters == <<2200, 1500, 0, 500, 0, 0, 0, 500, 0, 950>>
ExampleParsed ==
    /\ step = "Parse"
    /\ bench_address = 1
    /\ bench_response = Frame(1, 4, 20, ExampleRegisters)

\* C18 as stated: the example registers decode to a power factor of 0.95.
C18_ExampleAsStated ==
    ExampleParsed =>
        /\ bench_parsed.reading # None
        /\ bench_parsed.reading.voltage = 2200
        /\ bench_parsed.reading.current = 1500
        /\ bench_parsed.reading.power = 500
        /\ bench_parsed.reading.energy = 0
        /\ bench_parsed.reading.frequency = 500
        /\ bench_parsed.reading.power_factor = 95

\* C18: an accepted response decodes to voltage = r0/10, current =
\* ((r2<<16)|r1)/1000, power = ((r4<<16)|r3)/10, energy = (r6<<16)|r5,
\* frequency = r7/10 and a power factor taken from r8/100; the example
\* registers [2200,1500,0,500,0,0,0,500,0,950] give 220.0 V, 1.500 A, 50.0 W,
\* 0 Wh, 50.0 Hz and power factor 0.00, and 0.95 when r8 is 95.
C18_DecodesRegisters ==
    (step = "Parse" /\ bench_parsed.reading # None) =>
        LET r == bench_response
            d == bench_parsed.reading
        IN /\ d.voltage = WireRegister(r, 0)
           /\ d.current = WireRegister(r, 2) * 65536 + WireRegister(r, 1)
           /\ d.power = WireRegister(r, 4) * 65536 + WireRegister(r, 3)
           /\ d.energy = WireRegister(r, 6) * 65536 + WireRegister(r, 5)
           /\ d.frequency = WireRegister(r, 7)
           /\ (d.current # 0 /\ d.power # 0 /\ WireRegister(r, 8) <= 100) =>
                 d.power_factor = WireRegister(r, 8)
           /\ ExampleParsed =>
                 /\ d.voltage = 2200 /\ d.current = 1500 /\ d.power = 500
                 /\ d.energy = 0 /\ d.frequency = 500 /\ d.power_factor = 0
           /\ (r = Frame(1, 4, 20, <<2200, 1500, 0, 500, 0, 0, 0, 500, 95, 0>>)) =>
                 d.power_factor = 95

\* C18 witness: the example frame was parsed and accepted.
C18_Witness ==
    ExampleParsed /\ bench_parsed.reading # None /\ bench_parsed.reading.voltage = 2200

\* C19: the power factor of a decoded reading is between 0 and 1; it is
\* r8/100 limited to that range, and 0 when current or power is 0.
C19_PowerFactorClamped ==
    (step = "Parse" /\ bench_parsed.reading # None) =>
        LET d == bench_parsed.reading
            r8 == WireRegister(bench_response, 8)
        IN /\ d.power_factor >= 0 /\ d.power_factor <= 100
           /\ d.power_factor =
                IF d.current = 0 \/ d.power = 0 THEN 0
                ELSE IF r8 > 100 THEN 100 ELSE r8

\* C19 witness: a register 8 above 100 under load was limited to 1.00.
C19_Witness ==
    /\ step = "Parse" /\ bench_parsed.reading # None
    /\ WireRegister(bench_response, 8) > 100
    /\ bench_parsed.reading.current > 0 /\ bench_parsed.reading.power > 0
    /\ bench_parsed.reading.power_factor = 100

\* Plausibility check i of the fixed order fails on reading d.
FailsPlausibility(i, d) ==
    CASE i = 1 -> d.voltage > 0 /\ (d.voltage < 1800 \/ d.voltage > 2800)
      [] i = 2 -> d.current < 0 \/ d.current > 100000
      [] i = 3 -> d.power < 0 \/ d.power > 250000
      [] i = 4 -> d.frequency > 0 /\ (d.frequency < 450 \/ d.frequency > 650)
      [] i = 5 -> d.power_factor < 0 \/ d.power_factor > 100

\* P is more than 10% above or below V*I*PF for a significant load
\* (V > 10 V, I > 0.01 A).
FailsCrossCheck(d) ==
    LET expected == d.voltage * d.current * d.power_factor IN
    /\ d.voltage > 100 /\ d.current > 10
    /\ \/ d.power * 100000 > expected + expected \div 10
       \/ d.power * 100000 < expected - expected \div 10

ReasonNames ==
    <<"VoltageRange", "CurrentRange", "PowerRange", "FrequencyRange",
      "PowerFactorRange">>

\* C20: _validate_data reports the first failing check in the order voltage,
\* current, power, frequency, power factor, cross-check; 300 V is always a
\* voltage fault, a voltage or frequency of 0 passes its range check, and
\* 230 V, 5 A, 1150 W at power factor 1.00 is valid.
C20_FirstFailingCheck ==
    step = "Validate" =>
        LET d == bench_sample
            failed == {i \in 1..5 : FailsPlausibility(i, d)}
            expected ==
                IF failed # {}
                THEN ReasonNames[CHOOSE i \in failed : \A j \in failed : i <= j]
                ELSE IF FailsCrossCheck(d) THEN "PowerCrossCheck" ELSE "Valid"
        IN /\ bench_verdict = [ok |-> expected = "Valid", reason |-> expected]
           /\ d.voltage = 3000 => bench_verdict.reason = "VoltageRange"
           /\ d.voltage = 0 => bench_verdict.reason # "VoltageRange"
           /\ d.frequency = 0 => bench_verdict.reason # "FrequencyRange"
           /\ (d.voltage = 2300 /\ d.current = 5000 /\ d.power = 11500
                 /\ d.frequency = 500 /\ d.power_factor = 100) => bench_verdict.ok

\* C20 witness: a reading that fails the voltage, current, power, frequency
\* and power factor checks at once got the voltage reason.
C20_Witness ==
    /\ step = "Validate"
    /\ bench_sample.voltage = 3000 /\ bench_sample.current = 100001
    /\ bench_sample.power = 250001 /\ bench_sample.frequency = 400
    /\ bench_sample.power_factor = 101
    /\ bench_verdict.reason = "VoltageRange"


\* The power is more than a tenth of V*I*PF away from V*I*PF.
OffByMoreThanTenth(d) ==
    LET expected == d.voltage * d.current * d.power_factor
        diff == d.power * 100000 - expected
    IN \/ diff > expected \div 10
       \/ 0 - diff > expected \div 10

\* C21: a reading inside every range is rejected for the power cross-check
\* exactly when voltage > 10 V, current > 0.01 A and the power is more than
\* 10% of V*I*PF away from V*I*PF; with voltage <= 10 V or current <= 0.01 A
\* the cross-check is bypassed and the reading is valid.
C21_CrossCheckOnlyUnderLoad ==
    (step = "Validate" /\ \A i \in 1..5 : ~FailsPlausibility(i, bench_sample)) =>
        LET d == bench_sample IN
        /\ bench_verdict.reason = "PowerCrossCheck"
             <=> (d.voltage > 100 /\ d.current > 10 /\ OffByMoreThanTenth(d))
        /\ bench_verdict.reason \in {"PowerCrossCheck", "Valid"}
        /\ bench_verdict.ok <=> bench_verdict.reason = "Valid"
        /\ (d.voltage <= 100 \/ d.current <= 10) => bench_verdict.ok

\* C21 witness: 230 V and exactly 0.010 A with 1150 W reported was accepted,
\* the cross-check bypassed.
C21_Witness ==
    /\ step = "Validate"
    /\ bench_sample.voltage = 2300 /\ bench_sample.current = 10
    /\ bench_sample.power = 11500 /\ bench_sample.power_factor = 100
    /\ bench_verdict.ok


\* C22: for every byte string s, crc16_modbus of s followed by the low byte
\* and then the high byte of crc16_modbus(s) is 0.
C22_CrcRoundTrip ==
    step = "Checksum" =>
        /\ bench_crc \in 0..65535
        /\ crc16_modbus(bench_data \o <<bench_crc % 256, bench_crc \div 256>>) = 0

\* C22 witness: the round trip was taken for the read request of meter 1,
\* whose CRC is 0x0D70.
C22_Witness ==
    /\ step = "Checksum"
    /\ bench_data = <<1, 4, 0, 0, 0, 10>>
    /\ bench_crc = 3440
    /\ crc16_modbus(<<1, 4, 0, 0, 0, 10, 112, 13>>) = 0

\* C23: for every address 0..255 build_read_command returns the eight bytes
\* address, 0x04, 0x00, 0x00, 0x00, 0x0A, CRC low, CRC high, the CRC being
\* crc16_modbus of the first six.
C23_ReadRequestFrame ==
    step = "Build" =>
        LET crc == crc16_modbus(SubSeq(bench_command, 1, 6)) IN
        /\ Len(bench_command) = 8
        /\ SubSeq(bench_command, 1, 6) = <<bench_address, 4, 0, 0, 0, 10>>
        /\ bench_command[7] = crc % 256
        /\ bench_command[8] = crc \div 256
        /\ \A i \in 1..8 : bench_command[i] \in 0..255

\* C23 witness: the request for meter 1 is 01 04 00 00 00 0A 70 0D.
C23_Witness ==
    /\ step = "Build"
    /\ bench_address = 1
    /\ bench_command = <<1, 4, 0, 0, 0, 10, 112, 13>>


\* C24: a decoded reading judged invalid is returned to run() as decoded,
\* with the "Invalid data" status and the validation reason; it is counted
\* as invalid and the meter's last valid reading stays what it was.
C24_InvalidReadingDelivered ==
    [][ \A t \in Tenants :
          (PollStep(t) /\ outcome'[t] = "invalid") =>
            /\ data'[t] # None
            /\ \E k \in meter[t] \cap FrameKinds :
                 /\ ~_validate_data(read_response(k, now)).ok
                 /\ \A f \in {"voltage", "current", "power", "frequency",
                              "power_factor", "timestamp"} :
                      data'[t][f] = read_response(k, now)[f]
            /\ data'[t].energy = handler'.energy[t]
            /\ status'[t].kind = "Invalid data"
            /\ status'[t].reason = _validate_data(data'[t]).reason
            /\ status'[t].reason # "Valid"
            /\ stats'[t] = [stats[t] EXCEPT !.invalid = @ + 1]
            /\ last_valid_data'[t] = last_valid_data[t]
            /\ last_valid_data'[t] # data'[t] ]_vars

\* C24 witness: meter B's 260 V / 100 A / 26 kW reading is in run()'s hands
\* with its status, counted as invalid, and is not the last valid reading.
C24_Witness ==
    /\ step = "ReadB"
    /\ outcome["b"] = "invalid"
    /\ data["b"] # None /\ data["b"].power = 260000
    /\ status["b"] = [kind |-> "Invalid data", reason |-> "PowerRange"]
    /\ stats["b"].invalid > 0
    /\ last_valid_data["b"] = None


\* C25: when run() has ended because a restart used up its attempts,
\* send_system_alert has been called for it.
C25_AlertOnRestartExhaustion ==
    (pc = "done" /\ ~running /\ init_from = "restart") => alerts > 0


\* C26: when every attempt of the initialisation made by the constructor has
\* failed, run() returns at its entry check: the loop is never entered, no
\* meter has been polled and no counter or total has changed.
C26_InitFailureTerminates ==
    (init_from = "ctor" /\ ~running) =>
        /\ pc \in {"run", "done"}
        /\ step \in {"InitAttempt", "RunEntry"}
        /\ pzem = "None"
        /\ read_count = 0 /\ restarts = 0 /\ probes = 0
        /\ \A t \in Tenants :
            /\ poll_count[t] = 0
            /\ stats[t] = ZeroStats
            /\ consecutive_errors[t] = 0
            /\ last_valid_data[t] = None
            /\ handler.energy[t] = 0 /\ handler.daily_energy[t] = 0
        /\ \A k \in DOMAIN timing_stats : timing_stats[k] = <<>>

\* C26 witness: run() has returned after three failed attempts, 2 s and 4 s
\* apart.
C26_Witness ==
    /\ pc = "done" /\ step = "RunEntry"
    /\ init_from = "ctor" /\ ~running
    /\ attempt = max_retries - 1
    /\ sleeps = <<2, 4>>


\* C27: a shutdown request never takes effect between the sending of a
\* request and the end of the accounting of its answer, and the handler's
\* channels are closed when run() ends on it.
C27_ShutdownNeverMidExchange ==
    step = "Interrupt" =>
        /\ broke_off # "exchange"
        /\ pzem = "Handler" => ~handler.open


\* C28 as stated: every iteration in which a reading is due polls each meter
\* exactly once, so whenever an iteration is over each meter has been polled
\* once per due iteration.
C28_EveryDueIterationPollsOnce ==
    (pc \in {"loop", "maint", "done"} /\ step \notin {"Interrupt", "InitAttempt", "RunEntry"}) =>
        \A t \in Tenants : MonitoredPolls(t) = read_count

\* C28: the loop polls a meter only in an iteration where current_time -
\* last_reading >= SENSOR_READ_INTERVAL, an iteration where it is not polls
\* neither meter, and a due iteration polls meter A once and then meter B
\* once, unless it restarts the handler: then the connectivity test polls
\* both meters first, and a restart that fails ends the loop with no poll.
C28_PollsOnlyWhenDue ==
    [][ /\ (step' = "Tick" /\ running) =>
              /\ read_count' = (IF now - last_reading >= SENSOR_READ_INTERVAL
                                THEN read_count + 1 ELSE read_count)
              /\ now - last_reading < SENSOR_READ_INTERVAL => pc' = "maint"
              /\ now - last_reading >= SENSOR_READ_INTERVAL => pc' \in {"read_a", "init"}
              /\ poll_count' = poll_count
        /\ step' \in {"Maintain", "AfterRestart", "RunEntry"} => poll_count' = poll_count
        /\ (step' = "AfterRestart" /\ ~running) =>
              (pc' = "done" /\ \A t \in Tenants : MonitoredPolls(t) = read_count - 1)
        /\ PollStep("a") =>
              /\ current_time - last_reading >= SENSOR_READ_INTERVAL
              /\ pc \in {"read_a"} /\ pc' = "read_b"
              /\ MonitoredPolls("a") = read_count - 1
              /\ poll_count' = [poll_count EXCEPT !["a"] = @ + 1]
              /\ MonitoredPolls("b") = read_count - 1
        /\ PollStep("b") =>
              /\ current_time - last_reading >= SENSOR_READ_INTERVAL
              /\ pc' = "maint"
              /\ MonitoredPolls("a") = read_count
              /\ MonitoredPolls("b") = read_count - 1
              /\ poll_count' = [poll_count EXCEPT !["b"] = @ + 1]
        /\ (pc' \in {"loop", "maint"}) =>
              \A t \in Tenants : poll_count'[t] - probes' = read_count' ]_vars

\* C28 witness: an iteration begun before the interval had elapsed went
\* straight to maintenance, two cycles of one poll each behind it.
C28_Witness ==
    /\ step = "Tick" /\ pc = "maint"
    /\ read_count = 2
    /\ current_time - last_reading < SENSOR_READ_INTERVAL
    /\ \A t \in Tenants : MonitoredPolls(t) = 2


\* The last ten entries of a sequence, in order.
LastTen(seq) ==
    IF Len(seq) > 10 THEN SubSeq(seq, Len(seq) - 9, Len(seq)) ELSE seq

\* C29: the timing windows of meter A, meter B and the full cycle never hold
\* more than 10 samples; a sample added to a window goes to its end, and when
\* the window already holds 10 the oldest one leaves, the ten most recent
\* staying in arrival order.
C29_TimingWindowsKeepLastTen ==
    [][ /\ \A k \in DOMAIN timing_stats :
              Len(timing_stats[k]) <= 10 /\ Len(timing_stats'[k]) <= 10
        /\ timing_stats'.total_cycle_times =
              IF step' = "ReadB"
              THEN LastTen(timing_stats.total_cycle_times \o <<cycle_time'>>)
              ELSE timing_stats.total_cycle_times
        /\ \A t \in Tenants :
              LET w == timing_stats[timing_key(t)]
                  w2 == timing_stats'[timing_key(t)]
              IN IF PollStep(t) /\ status'[t].kind = "OK"
                 THEN \E x \in {SendWaitMs, SendWaitMs + timeout_ms} :
                        w2 = LastTen(w \o <<x>>)
                 ELSE w2 = w ]_vars

\* C29 witness: the cycle window is full, its newest sample is the long
\* cycle of a restart and the nine before it are older, shorter cycles: the
\* eleventh sample pushed out the first.
C29_Witness ==
    LET w == timing_stats.total_cycle_times IN
    /\ step = "ReadB" /\ read_count = 11 /\ restarts = 1
    /\ Len(w) = 10
    /\ w[10] = cycle_time /\ w[10] > w[9]
    /\ \A i \in 1..9 : w[i] = w[1]


\* C30: the sleep at the end of an iteration is max(50, 200 - cycle_time) ms,
\* never below 50 ms and never above 200 ms, whatever the cycle took.
C30_SleepWithinFloorAndPeriod ==
    step = "Sleep" =>
        /\ bench_sleep_time =
             (IF 200 - bench_cycle_time > 50 THEN 200 - bench_cycle_time ELSE 50)
        /\ bench_sleep_time >= 50
        /\ bench_sleep_time <= 200

\* C30 witness: a cycle of 120 ms was followed by a sleep of 80 ms.
C30_Witness ==
    /\ step = "Sleep"
    /\ bench_cycle_time = 120
    /\ bench_sleep_time = 80



\* C32: the checksum is the CRC16 of bytes 0..22 against byte 23 (low) and
\* byte 24 (high) and the registers are bytes 3..22, so a buffer of 25 or
\* more bytes whose first 25 are a correct frame is accepted and decoded,
\* also when more than 25 bytes were collected.
C32_FirstFrameBytesDecide ==
    step = "Parse" =>
        LET r == bench_response IN
        ( /\ Len(r) >= 25
          /\ r[1] = bench_address /\ r[2] = 4 /\ r[3] = 20
          /\ crc16_modbus(SubSeq(r, 1, 23)) = r[24] + 256 * r[25] ) =>
            /\ bench_parsed.reading # None
            /\ bench_parsed.reading.voltage = WireRegister(r, 0)
            /\ bench_parsed.reading.frequency = WireRegister(r, 7)


-----------------------------------------------------------------------------
(* Further properties of the monitor, under Spec *)

\* C33: the consecutive-failure count of each meter is always between 0 and
\* the restart threshold, 10.
C33_FailureCountInRange ==
    \A t \in Tenants : consecutive_errors[t] \in 0..max_consecutive_errors

\* A poll has just brought a meter's count to the threshold.
C33_Witness ==
    /\ step \in {"ReadA", "ReadB"}
    /\ \E t \in Tenants :
          consecutive_errors[t] = max_consecutive_errors /\ outcome[t] # "success"


\* C34: for each meter 0 <= daily energy <= lifetime energy, and between two
\* constructions of the handler the lifetime energy never decreases.
C34_EnergyTotalsOrdered ==
    [][ /\ \A t \in Tenants :
              /\ 0 <= handler'.daily_energy[t]
              /\ handler'.daily_energy[t] <= handler'.energy[t]
        /\ step' # "InitAttempt" =>
              \A t \in Tenants : handler'.energy[t] >= handler.energy[t] ]_vars

\* After a daily reset a meter has accumulated again: its daily energy is
\* positive and below its lifetime energy.
C34_Witness ==
    /\ step \in {"ReadA", "ReadB"}
    /\ \E t \in Tenants :
          0 < handler.daily_energy[t] /\ handler.daily_energy[t] < handler.energy[t]


\* C35: a poll of one meter leaves the other meter's lifetime energy, daily
\* energy, last-sample timestamp, result counters, consecutive-failure count
\* and timing window unchanged.
C35_PollLeavesOtherMeterAlone ==
    [][ \A t, o \in Tenants :
          (o # t /\ PollStep(t)) =>
              /\ handler'.energy[o] = handler.energy[o]
              /\ handler'.daily_energy[o] = handler.daily_energy[o]
              /\ handler'.last_reading[o] = handler.last_reading[o]
              /\ stats'[o] = stats[o]
              /\ consecutive_errors'[o] = consecutive_errors[o]
              /\ timing_stats'[timing_key(o)] = timing_stats[timing_key(o)] ]_vars

\* Meter A has just been polled and integrated while meter B holds energy,
\* counted results and a timing window of its own.
C35_Witness ==
    /\ step = "ReadA"
    /\ handler.last_reading["a"] = now
    /\ handler.energy["a"] > 0
    /\ handler.energy["b"] > 0
    /\ stats["b"]["success"] > 0
    /\ Len(timing_stats.read_b_times) > 0


\* C36: integration does not wait for the validator: a decoded sample judged
\* invalid (power above 25000 W, say) has advanced the meter's last-sample
\* timestamp and added its power * seconds to both totals, as a valid one does.
C36_InvalidSampleIntegrated ==
    [][ \A t \in Tenants :
          (PollStep(t) /\ status'[t].kind = "Invalid data") =>
            LET inc == energy_increment(handler, t, data'[t].power, now) IN
            /\ handler'.last_reading[t] = now
            /\ handler'.energy[t] = handler.energy[t] + inc
            /\ handler'.daily_energy[t] = handler.daily_energy[t] + inc ]_vars

\* Meter B's 26 kW sample, rejected for its power, has been added to the
\* totals and has moved the timestamp.
C36_Witness ==
    /\ step = "ReadB"
    /\ status["b"] = [kind |-> "Invalid data", reason |-> "PowerRange"]
    /\ data["b"].power = 260000
    /\ handler.last_reading["b"] = now
    /\ handler.energy["b"] >= 260000
    /\ handler.daily_energy["b"] >= 260000


-----------------------------------------------------------------------------
(* Properties of a single exchange, under ExchangeSpec *)

\* C31: every exchange comes to its end whatever the line does: draining,
\* writing and receiving complete, with a silent meter and with one that
\* transmits without pause.
C31_ExchangeTerminates == <>(exchange_pc = "returned")

====
